---- MODULE Spec2Model ----
(***************************************************************************)
(* A model of backend/server.py, the Project Management API: four MongoDB  *)
(* collections (users, projects, tasks, comments) and the request handlers *)
(* that read and write them.  A handler is an asyncio coroutine: it runs   *)
(* without interruption between two awaits of a store operation, and other *)
(* requests may run at every await.  Each action below is one store        *)
(* operation of a handler together with the handler's code that runs up to *)
(* the next await (or to the return).                                      *)
(*                                                                         *)
(* Identifiers are strings, as in the source.  Timestamps are integers     *)
(* (whole days); every datetime.now() is a read of the wall clock, which   *)
(* the handlers do not control, so each read draws its value from Times.   *)
(* created_at of users, projects and comments is written once and read by  *)
(* no handler; it is left out of those documents.                          *)
(***************************************************************************)
EXTENDS Integers, Sequences, FiniteSets, TLC

VARIABLES users, projects, tasks, comments, issued, pc, req, loc, resp

vars == <<users, projects, tasks, comments, issued, pc, req, loc, resp>>

store == <<users, projects, tasks, comments>>

\* ------------------------------------------------------------------ bounds

MaxUsers == 2
MaxProjects == 1
MaxTasks == 2
MaxComments == 2
MaxTime == 1

\* ------------------------------------------------------------- value sets

\* None of a request's optional field (Optional[str] = None).
None == "None"

\* None of a stored timestamp (completed_at: Optional[datetime] = None).
NoTime == -1

Times == 0 .. MaxTime

TaskStatus == {"TODO", "IN_PROGRESS", "IN_REVIEW", "DONE"}

TaskPriority == {"LOW", "MEDIUM", "HIGH", "CRITICAL"}

DefaultAvatarColor == "#3b82f6"

\* The n-th identifier uuid.uuid4() hands out for a collection: never one it
\* handed out before.
UuidNames == <<"1", "2", "3", "4", "5", "6">>

Uuid(kind, n) == kind \o UuidNames[n]

UserIds == {Uuid("u", n) : n \in 1 .. MaxUsers}
ProjectIds == {Uuid("p", n) : n \in 1 .. MaxProjects}
TaskIds == {Uuid("t", n) : n \in 1 .. MaxTasks}
CommentIds == {Uuid("c", n) : n \in 1 .. MaxComments}

\* The request handlers that may be in progress at once.
Procs == {"r1", "r2"}

\* A handler not running: no request, no local variable.
NoReq == [op |-> "none"]
NoDoc == [found |-> FALSE]
NoResp == [op |-> "none", code |-> 0]

\* ------------------------------------------------------- store operations

\* A collection maps the "id" of each of its documents to the document.
EmptyCollection == [i \in {} |-> NoDoc]

\* find_one({"id": id}): the document, or None (here NoDoc).
FindOne(coll, id) ==
    IF id \in DOMAIN coll THEN [found |-> TRUE, id |-> id, doc |-> coll[id]] ELSE NoDoc

\* insert_one(doc)
InsertOne(coll, id, doc) == coll @@ (id :> doc)

\* update_one({"id": id}, {"$set": update_data}): the fields named by
\* update_data are overwritten in the matching document, all at once; with no
\* matching document nothing is written (no upsert).
SetFields(doc, update_data) ==
    [k \in DOMAIN doc |-> IF k \in DOMAIN update_data THEN update_data[k] ELSE doc[k]]

UpdateOne(coll, id, update_data) ==
    IF id \in DOMAIN coll
    THEN [coll EXCEPT ![id] = SetFields(coll[id], update_data)]
    ELSE coll

\* delete_one({"id": id}) and its deleted_count
DeleteOne(coll, id) == [i \in DOMAIN coll \ {id} |-> coll[i]]

DeletedCount(coll, id) == IF id \in DOMAIN coll THEN 1 ELSE 0

\* delete_many that stops at the first match, as delete_one does.
DeleteManyOnlyFirst(coll, field, value) ==
    LET matching == {j \in DOMAIN coll : coll[j][field] = value}
    IN  IF matching = {} THEN coll
        ELSE [i \in DOMAIN coll \ {CHOOSE j \in matching : TRUE} |-> coll[i]]

\* delete_many({field: value})
DeleteMany(coll, field, value) ==
    [i \in {j \in DOMAIN coll : coll[j][field] # value} |-> coll[i]]

\* find(filter).to_list(): the ids of the matching documents
Find(coll, field, value) == {i \in DOMAIN coll : coll[i][field] = value}

\* update_data without the "if v is not None" filter.
NonNullUnfiltered(data) == data

\* {k: v for k, v in data.model_dump().items() if v is not None}
NonNull(data) == [k \in {f \in DOMAIN data : data[f] # None} |-> data[k]]

\* dict.update: the handler's copy of the document with update_data merged in
Merge(doc, update_data) == SetFields(doc, update_data)

\* ------------------------------------------------------------- responses

\* resp is the response the last step sent, if it sent one, with the request it
\* answers: the handler, the status code, the id the request addressed (of a
\* POST, the id created, or with a 404 the id not found), the request's body
\* and, with a 200, the document returned (NoDoc with a message).
Ok(op, id, data, doc) == [op |-> op, code |-> 200, id |-> id, data |-> data, doc |-> doc]

\* raise HTTPException(status_code=404, ...)
NotFound(op, id, data) == [op |-> op, code |-> 404, id |-> id, data |-> data]

\* The handler returns: its request and local variables are gone.
Return(r) ==
    /\ pc' = [pc EXCEPT ![r] = "idle"]
    /\ req' = [req EXCEPT ![r] = NoReq]
    /\ loc' = [loc EXCEPT ![r] = NoDoc]

\* The handler awaits its next store operation; it has sent no response.
Await(r, label, request, local) ==
    /\ pc' = [pc EXCEPT ![r] = label]
    /\ req' = [req EXCEPT ![r] = request]
    /\ loc' = [loc EXCEPT ![r] = local]
    /\ resp' = NoResp

\* Handler r, resumed at its await, returns in this step.
Returns(r) == pc[r] # "idle" /\ pc'[r] = "idle"

Init ==
    /\ users = EmptyCollection
    /\ projects = EmptyCollection
    /\ tasks = EmptyCollection
    /\ comments = EmptyCollection
    /\ issued = [users |-> 0, projects |-> 0, tasks |-> 0, comments |-> 0]
    /\ pc = [r \in Procs |-> "idle"]
    /\ req = [r \in Procs |-> NoReq]
    /\ loc = [r \in Procs |-> NoDoc]
    /\ resp = NoResp

\* ------------------------------------------------------------------ users

\* POST /users
create_user(r, user_data) ==
    /\ pc[r] = "idle"
    /\ LET id == Uuid("u", issued.users + 1)
       IN  /\ users' = InsertOne(users, id, user_data)
           /\ issued' = [issued EXCEPT !.users = @ + 1]
           /\ resp' = Ok("create_user", id, user_data, user_data)
    /\ Return(r)
    /\ UNCHANGED <<projects, tasks, comments>>

\* PUT /users/{user_id}: find_one, then the 404 or the await of update_one
update_user_find(r, user_id, user_data) ==
    /\ pc[r] = "idle"
    /\ LET user == FindOne(users, user_id)
       IN  IF ~user.found
           THEN /\ resp' = NotFound("update_user", user_id, user_data)
                /\ Return(r)
           ELSE IF DOMAIN NonNull(user_data) = {}
           THEN /\ resp' = Ok("update_user", user_id, user_data, user.doc)
                /\ Return(r)
           ELSE /\ Await(r, "update_user", [op |-> "update_user", id |-> user_id,
                                            data |-> user_data], user)
    /\ UNCHANGED <<store, issued>>

update_user_write(r) ==
    /\ pc[r] = "update_user"
    /\ LET update_data == NonNull(req[r].data)
       IN  /\ users' = UpdateOne(users, req[r].id, update_data)
           /\ resp' = Ok("update_user", req[r].id, req[r].data,
                         Merge(loc[r].doc, update_data))
    /\ Return(r)
    /\ UNCHANGED <<projects, tasks, comments, issued>>

\* DELETE /users/{user_id}
delete_user(r, user_id) ==
    /\ pc[r] = "idle"
    /\ users' = DeleteOne(users, user_id)
    /\ resp' = IF DeletedCount(users, user_id) = 0
               THEN NotFound("delete_user", user_id, None)
               ELSE Ok("delete_user", user_id, None, NoDoc)
    /\ Return(r)
    /\ UNCHANGED <<projects, tasks, comments, issued>>

\* --------------------------------------------------------------- projects

\* Project(**project_data.model_dump()) and the clock read of updated_at
NewProject(project_data, updated_at) ==
    [name |-> project_data.name,
     description |-> project_data.description,
     owner_id |-> project_data.owner_id,
     updated_at |-> updated_at]

\* POST /projects: the owner check
create_project_owner(r, project_data) ==
    /\ pc[r] = "idle"
    /\ LET owner == FindOne(users, project_data.owner_id)
       IN  IF ~owner.found
           THEN /\ resp' = NotFound("create_project", project_data.owner_id, project_data)
                /\ Return(r)
           ELSE /\ Await(r, "create_project",
                         [op |-> "create_project", data |-> project_data], NoDoc)
    /\ UNCHANGED <<store, issued>>

\* POST /projects: insert_one
create_project_insert(r, now) ==
    /\ pc[r] = "create_project"
    /\ LET id == Uuid("p", issued.projects + 1)
           project == NewProject(req[r].data, now)
       IN  /\ projects' = InsertOne(projects, id, project)
           /\ issued' = [issued EXCEPT !.projects = @ + 1]
           /\ resp' = Ok("create_project", id, req[r].data, project)
    /\ Return(r)
    /\ UNCHANGED <<users, tasks, comments>>

\* PUT /projects/{project_id}
update_project_find(r, project_id, project_data) ==
    /\ pc[r] = "idle"
    /\ LET project == FindOne(projects, project_id)
       IN  IF ~project.found
           THEN /\ resp' = NotFound("update_project", project_id, project_data)
                /\ Return(r)
           ELSE IF DOMAIN NonNull(project_data) = {}
           THEN /\ resp' = Ok("update_project", project_id, project_data, project.doc)
                /\ Return(r)
           ELSE /\ Await(r, "update_project", [op |-> "update_project", id |-> project_id,
                                               data |-> project_data], project)
    /\ UNCHANGED <<store, issued>>

update_project_write(r, now) ==
    /\ pc[r] = "update_project"
    /\ LET update_data == NonNull(req[r].data) @@ [updated_at |-> now]
       IN  /\ projects' = UpdateOne(projects, req[r].id, update_data)
           /\ resp' = Ok("update_project", req[r].id, req[r].data,
                         Merge(loc[r].doc, update_data))
    /\ Return(r)
    /\ UNCHANGED <<users, tasks, comments, issued>>

\* DELETE /projects/{project_id}: delete_one, then the 404 or the await of
\* delete_many on the tasks
delete_project_one(r, project_id) ==
    /\ pc[r] = "idle"
    /\ projects' = DeleteOne(projects, project_id)
    /\ IF DeletedCount(projects, project_id) = 0
       THEN /\ resp' = NotFound("delete_project", project_id, None)
            /\ Return(r)
       ELSE /\ Await(r, "delete_project", [op |-> "delete_project", id |-> project_id], NoDoc)
    /\ UNCHANGED <<users, tasks, comments, issued>>

delete_project_tasks(r) ==
    /\ pc[r] = "delete_project"
    /\ tasks' = DeleteMany(tasks, "project_id", req[r].id)
    /\ resp' = Ok("delete_project", req[r].id, None, NoDoc)
    /\ Return(r)
    /\ UNCHANGED <<users, projects, comments, issued>>

\* ------------------------------------------------------------------ tasks

\* Task(**task_data.model_dump()): status TODO, completed_at None, and the two
\* clock reads of created_at and updated_at.
NewTask(task_data, created_at, updated_at) ==
    [title |-> task_data.title,
     description |-> task_data.description,
     project_id |-> task_data.project_id,
     assigned_to |-> task_data.assigned_to,
     status |-> "TODO",
     priority |-> task_data.priority,
     created_at |-> created_at,
     updated_at |-> updated_at,
     completed_at |-> NoTime]

\* "if task_data.assigned_to:" is false of None and of the empty string.
Truthy(v) == v # None /\ v # ""

\* POST /tasks: the project check
create_task_project(r, task_data) ==
    /\ pc[r] = "idle"
    /\ LET project == FindOne(projects, task_data.project_id)
       IN  IF ~project.found
           THEN /\ resp' = NotFound("create_task", task_data.project_id, task_data)
                /\ Return(r)
           ELSE /\ Await(r, IF Truthy(task_data.assigned_to)
                            THEN "create_task_user" ELSE "create_task",
                         [op |-> "create_task", data |-> task_data], NoDoc)
    /\ UNCHANGED <<store, issued>>

\* POST /tasks: the check of the assigned user
create_task_user(r) ==
    /\ pc[r] = "create_task_user"
    /\ LET user == FindOne(users, req[r].data.assigned_to)
       IN  IF ~user.found
           THEN /\ resp' = NotFound("create_task", req[r].data.assigned_to, req[r].data)
                /\ Return(r)
           ELSE /\ Await(r, "create_task", req[r], NoDoc)
    /\ UNCHANGED <<store, issued>>

\* POST /tasks: insert_one
create_task_insert(r, created_at, updated_at) ==
    /\ pc[r] = "create_task"
    /\ LET id == Uuid("t", issued.tasks + 1)
           task == NewTask(req[r].data, created_at, updated_at)
       IN  /\ tasks' = InsertOne(tasks, id, task)
           /\ issued' = [issued EXCEPT !.tasks = @ + 1]
           /\ resp' = Ok("create_task", id, req[r].data, task)
    /\ Return(r)
    /\ UNCHANGED <<users, projects, comments>>

\* GET /tasks?project_id=...: the ids of the tasks returned
get_tasks(project_id) ==
    IF Truthy(project_id) THEN Find(tasks, "project_id", project_id) ELSE DOMAIN tasks

\* update_task with the clearing branch (lines 304-305) left out.
TaskUpdateDataNeverCleared(task_data, now, now_done) ==
    LET update_data == NonNull(task_data) @@ [updated_at |-> now]
    IN  IF "status" \in DOMAIN update_data /\ update_data.status = "DONE"
        THEN update_data @@ [completed_at |-> now_done]
        ELSE update_data

\* update_task's update_data: the non-null fields of the request, updated_at,
\* and completed_at when status is among them (lines 296-305).
TaskUpdateData(task_data, now, now_done) ==
    LET update_data == NonNull(task_data) @@ [updated_at |-> now]
    IN  IF "status" \in DOMAIN update_data /\ update_data.status = "DONE"
        THEN update_data @@ [completed_at |-> now_done]
        ELSE IF "status" \in DOMAIN update_data /\ update_data.status # "DONE"
        THEN update_data @@ [completed_at |-> NoTime]
        ELSE update_data

\* PUT /tasks/{task_id}: find_one, then the 404, the return of the task as read
\* (an empty update_data), or the await of update_one
update_task_find(r, task_id, task_data) ==
    /\ pc[r] = "idle"
    /\ LET task == FindOne(tasks, task_id)
       IN  IF ~task.found
           THEN /\ resp' = NotFound("update_task", task_id, task_data)
                /\ Return(r)
           ELSE IF DOMAIN NonNull(task_data) = {}
           THEN /\ resp' = Ok("update_task", task_id, task_data, task.doc)
                /\ Return(r)
           ELSE /\ Await(r, "update_task", [op |-> "update_task", id |-> task_id,
                                            data |-> task_data], task)
    /\ UNCHANGED <<store, issued>>

\* update_task writing back the document it read with update_data applied
\* (replace_one of the modified read) instead of "$set" of update_data.
update_task_replace(r, now, now_done) ==
    /\ pc[r] = "update_task"
    /\ LET update_data == TaskUpdateData(req[r].data, now, now_done)
           task == Merge(loc[r].doc, update_data)
       IN  /\ tasks' = IF req[r].id \in DOMAIN tasks
                       THEN [tasks EXCEPT ![req[r].id] = task]
                       ELSE tasks
           /\ resp' = Ok("update_task", req[r].id, req[r].data, task)
    /\ Return(r)
    /\ UNCHANGED <<users, projects, comments, issued>>

\* PUT /tasks/{task_id}: update_one and the response.  The clock reads the
\* handler makes while it builds update_data are drawn here: the store and the
\* response take the same values wherever between find_one and update_one the
\* clock is read.
update_task_write(r, now, now_done) ==
    /\ pc[r] = "update_task"
    /\ LET update_data == TaskUpdateData(req[r].data, now, now_done)
       IN  /\ tasks' = UpdateOne(tasks, req[r].id, update_data)
           /\ resp' = Ok("update_task", req[r].id, req[r].data,
                         Merge(loc[r].doc, update_data))
    /\ Return(r)
    /\ UNCHANGED <<users, projects, comments, issued>>

\* update_task_status with the else branch (lines 325-326) left out.
StatusUpdateDataNeverCleared(status, now, now_done) ==
    LET update_data == [status |-> status, updated_at |-> now]
    IN  IF status = "DONE"
        THEN update_data @@ [completed_at |-> now_done]
        ELSE update_data

\* update_task_status with lines 323-326 left out: completed_at is not written.
StatusUpdateDataStatusOnly(status, now, now_done) ==
    [status |-> status, updated_at |-> now]

\* update_task_status's update_data (lines 318-326)
StatusUpdateData(status, now, now_done) ==
    LET update_data == [status |-> status, updated_at |-> now]
    IN  IF status = "DONE"
        THEN update_data @@ [completed_at |-> now_done]
        ELSE update_data @@ [completed_at |-> NoTime]

\* PATCH /tasks/{task_id}/status: find_one
update_task_status_find(r, task_id, status) ==
    /\ pc[r] = "idle"
    /\ LET task == FindOne(tasks, task_id)
       IN  IF ~task.found
           THEN /\ resp' = NotFound("update_task_status", task_id, status)
                /\ Return(r)
           ELSE /\ Await(r, "update_task_status",
                         [op |-> "update_task_status", id |-> task_id,
                          status |-> status], task)
    /\ UNCHANGED <<store, issued>>

\* PATCH /tasks/{task_id}/status: update_one and the response
update_task_status_write(r, now, now_done) ==
    /\ pc[r] = "update_task_status"
    /\ LET update_data == StatusUpdateData(req[r].status, now, now_done)
       IN  /\ tasks' = UpdateOne(tasks, req[r].id, update_data)
           /\ resp' = Ok("update_task_status", req[r].id, req[r].status,
                         Merge(loc[r].doc, update_data))
    /\ Return(r)
    /\ UNCHANGED <<users, projects, comments, issued>>

\* DELETE /tasks/{task_id}: delete_one, then the 404 or the await of
\* delete_many on the comments
delete_task_one(r, task_id) ==
    /\ pc[r] = "idle"
    /\ tasks' = DeleteOne(tasks, task_id)
    /\ IF DeletedCount(tasks, task_id) = 0
       THEN /\ resp' = NotFound("delete_task", task_id, None)
            /\ Return(r)
       ELSE /\ Await(r, "delete_task", [op |-> "delete_task", id |-> task_id], NoDoc)
    /\ UNCHANGED <<users, projects, comments, issued>>

delete_task_comments(r) ==
    /\ pc[r] = "delete_task"
    /\ comments' = DeleteMany(comments, "task_id", req[r].id)
    /\ resp' = Ok("delete_task", req[r].id, None, NoDoc)
    /\ Return(r)
    /\ UNCHANGED <<users, projects, tasks, issued>>

\* --------------------------------------------------------------- comments

\* POST /comments: the task check
create_comment_task(r, comment_data) ==
    /\ pc[r] = "idle"
    /\ LET task == FindOne(tasks, comment_data.task_id)
       IN  IF ~task.found
           THEN /\ resp' = NotFound("create_comment", comment_data.task_id, comment_data)
                /\ Return(r)
           ELSE /\ Await(r, "create_comment_user",
                         [op |-> "create_comment", data |-> comment_data], NoDoc)
    /\ UNCHANGED <<store, issued>>

\* POST /comments: the user check
create_comment_user(r) ==
    /\ pc[r] = "create_comment_user"
    /\ LET user == FindOne(users, req[r].data.user_id)
       IN  IF ~user.found
           THEN /\ resp' = NotFound("create_comment", req[r].data.user_id, req[r].data)
                /\ Return(r)
           ELSE /\ Await(r, "create_comment", req[r], NoDoc)
    /\ UNCHANGED <<store, issued>>

\* POST /comments: insert_one
create_comment_insert(r) ==
    /\ pc[r] = "create_comment"
    /\ LET id == Uuid("c", issued.comments + 1)
       IN  /\ comments' = InsertOne(comments, id, req[r].data)
           /\ issued' = [issued EXCEPT !.comments = @ + 1]
           /\ resp' = Ok("create_comment", id, req[r].data, req[r].data)
    /\ Return(r)
    /\ UNCHANGED <<users, projects, tasks>>

\* GET /comments?task_id=...: the ids of the comments returned
get_comments(task_id) ==
    IF Truthy(task_id) THEN Find(comments, "task_id", task_id) ELSE DOMAIN comments

\* DELETE /comments/{comment_id}
delete_comment(r, comment_id) ==
    /\ pc[r] = "idle"
    /\ comments' = DeleteOne(comments, comment_id)
    /\ resp' = IF DeletedCount(comments, comment_id) = 0
               THEN NotFound("delete_comment", comment_id, None)
               ELSE Ok("delete_comment", comment_id, None, NoDoc)
    /\ Return(r)
    /\ UNCHANGED <<users, projects, tasks, issued>>

\* ---------------------------------------------------------------- metrics

\* None of an Optional[float]; a float x is <<h>>, h = x in hundredths.
NoAverage == <<>>

\* round(n / d, 0) for d > 0, as Python rounds: to the nearest integer, a tie
\* to the even one.
RoundHalfEven(n, d) ==
    LET q == n \div d
        rem == n - q * d
    IN  IF 2 * rem < d THEN q
        ELSE IF 2 * rem > d THEN q + 1
        ELSE IF q % 2 = 0 THEN q ELSE q + 1

RECURSIVE SumOver(_, _)
\* sum(completion_times), each the days from created_at to completed_at
SumOver(docs, ids) ==
    IF ids = {} THEN 0
    ELSE LET i == CHOOSE j \in ids : TRUE
         IN  (docs[i].completed_at - docs[i].created_at) + SumOver(docs, ids \ {i})

\* "if task.get('completed_at') and task.get('created_at')"
Timed(docs, ids) ==
    {i \in ids : docs[i].completed_at # NoTime /\ docs[i].created_at # NoTime}

\* avg_completion_time, and "round(avg, 2) if avg_completion_time else None":
\* None with no completion time, and None when the average is 0.0 too.
AverageCompletionTime(docs, ids) ==
    LET completion_times == Timed(docs, ids)
        total == SumOver(docs, completion_times)
    IN  IF completion_times = {} THEN NoAverage
        ELSE IF total = 0 THEN NoAverage
        ELSE <<RoundHalfEven(total * 100, Cardinality(completion_times))>>

\* The rate as a fraction: "* 100" left out.
CompletionRateAsFraction(completed_tasks, total_tasks) ==
    IF total_tasks > 0 THEN RoundHalfEven(completed_tasks * 100, total_tasks) ELSE 0

\* round((completed_tasks / total_tasks * 100) if total_tasks > 0 else 0, 2),
\* in hundredths
CompletionRate(completed_tasks, total_tasks) ==
    IF total_tasks > 0 THEN RoundHalfEven(completed_tasks * 10000, total_tasks) ELSE 0

CountStatus(docs, ids, status) == Cardinality({i \in ids : docs[i].status = status})

\* The ProjectMetrics built from the tasks loaded (lines 388-412)
ProjectMetrics(docs, ids) ==
    [total_tasks |-> Cardinality(ids),
     completed_tasks |-> CountStatus(docs, ids, "DONE"),
     in_progress_tasks |-> CountStatus(docs, ids, "IN_PROGRESS"),
     todo_tasks |-> CountStatus(docs, ids, "TODO"),
     average_completion_time_days |-> AverageCompletionTime(docs, ids),
     completion_rate |->
         CompletionRate(CountStatus(docs, ids, "DONE"), Cardinality(ids))]

\* GET /metrics/project/{project_id}: the project check
get_project_metrics_project(r, project_id) ==
    /\ pc[r] = "idle"
    /\ LET project == FindOne(projects, project_id)
       IN  IF ~project.found
           THEN /\ resp' = NotFound("get_project_metrics", project_id, None)
                /\ Return(r)
           ELSE /\ Await(r, "get_project_metrics",
                         [op |-> "get_project_metrics", id |-> project_id], NoDoc)
    /\ UNCHANGED <<store, issued>>

\* GET /metrics/project/{project_id}: the project's tasks, and the metrics
get_project_metrics_tasks(r) ==
    /\ pc[r] = "get_project_metrics"
    /\ resp' = Ok("get_project_metrics", req[r].id, None,
                  ProjectMetrics(tasks, Find(tasks, "project_id", req[r].id)))
    /\ Return(r)
    /\ UNCHANGED <<store, issued>>

\* GET /metrics/overview: count_documents of projects, of tasks, of users
get_overview_metrics_projects(r) ==
    /\ pc[r] = "idle"
    /\ Await(r, "get_overview_metrics_tasks",
             [op |-> "get_overview_metrics",
              total_projects |-> Cardinality(DOMAIN projects)], NoDoc)
    /\ UNCHANGED <<store, issued>>

get_overview_metrics_tasks(r) ==
    /\ pc[r] = "get_overview_metrics_tasks"
    /\ Await(r, "get_overview_metrics_users",
             req[r] @@ [total_tasks |-> Cardinality(DOMAIN tasks)], NoDoc)
    /\ UNCHANGED <<store, issued>>

get_overview_metrics_users(r) ==
    /\ pc[r] = "get_overview_metrics_users"
    /\ Await(r, "get_overview_metrics",
             req[r] @@ [total_users |-> Cardinality(DOMAIN users)], NoDoc)
    /\ UNCHANGED <<store, issued>>

\* GET /metrics/overview: the DONE tasks, and the metrics (lines 421-441)
get_overview_metrics_done(r) ==
    /\ pc[r] = "get_overview_metrics"
    /\ LET completed_tasks_list == Find(tasks, "status", "DONE")
       IN  resp' = Ok("get_overview_metrics", None, None,
                      [total_projects |-> req[r].total_projects,
                       total_tasks |-> req[r].total_tasks,
                       total_users |-> req[r].total_users,
                       completed_tasks |-> Cardinality(completed_tasks_list),
                       average_completion_time_days |->
                           AverageCompletionTime(tasks, completed_tasks_list)])
    /\ Return(r)
    /\ UNCHANGED <<store, issued>>

\* ------------------------------------------------------------ the requests

\* Handlers running now for operation op.
InFlight(op) == Cardinality({r \in Procs : req[r].op = op})

\* A new document may be created: uuid4 has fresh identifiers left for it.
MayCreate(kind, op, bound) == issued[kind] + InFlight(op) < bound

UserData == [name |-> "ann", email |-> "ann@x.io", avatar_color |-> DefaultAvatarColor]

ProjectData(owner_id) == [name |-> "web", description |-> "site", owner_id |-> owner_id]

TaskData(project_id, assigned_to) ==
    [title |-> "fix", description |-> "bug", project_id |-> project_id,
     assigned_to |-> assigned_to, priority |-> "MEDIUM"]

CommentData(task_id, user_id) == [task_id |-> task_id, user_id |-> user_id, text |-> "hi"]

\* A TaskUpdate that sets nothing, and those that set one field
NoTaskUpdate ==
    [title |-> None, description |-> None, assigned_to |-> None,
     status |-> None, priority |-> None]

OnlyStatus(status) == [NoTaskUpdate EXCEPT !.status = status]

\* The store after POST /users and POST /projects: user u1 and its project p1.
InitProject ==
    /\ users = ("u1" :> UserData)
    /\ projects = ("p1" :> NewProject(ProjectData("u1"), 0))
    /\ tasks = EmptyCollection
    /\ comments = EmptyCollection
    /\ issued = [users |-> 1, projects |-> 1, tasks |-> 0, comments |-> 0]
    /\ pc = [r \in Procs |-> "idle"]
    /\ req = [r \in Procs |-> NoReq]
    /\ loc = [r \in Procs |-> NoDoc]
    /\ resp = NoResp

\* ------------------------------------------- assignment, one at a time

\* The requests that create users, projects and tasks and that assign tasks,
\* from the empty store, one at a time.
Next ==
    \E r \in {"r1"} :
        \/ MayCreate("users", "create_user", MaxUsers) /\ create_user(r, UserData)
        \/ \E id \in UserIds : delete_user(r, id)
        \/ /\ MayCreate("projects", "create_project", MaxProjects)
           /\ \E owner_id \in UserIds : create_project_owner(r, ProjectData(owner_id))
        \/ create_project_insert(r, 0)
        \/ /\ MayCreate("tasks", "create_task", MaxTasks)
           /\ \E project_id \in ProjectIds, assigned_to \in UserIds \cup {None} :
                  create_task_project(r, TaskData(project_id, assigned_to))
        \/ create_task_user(r)
        \/ create_task_insert(r, 0, 0)
        \/ \E id \in TaskIds, assigned_to \in UserIds :
               update_task_find(r, id, [NoTaskUpdate EXCEPT !.assigned_to = assigned_to])
        \/ update_task_write(r, 0, 0)

Spec == Init /\ [][Next]_vars

\* C2: a write that sets a task's assigned_to (create_task with an
\* assigned_to, update_task whose body carries one) is made only while a user
\* with that id is in the users collection, and a create_task or update_task
\* answered 404 leaves the tasks as they were.
AssignedUserExistsAtWrite ==
    [][/\ \A r \in Procs :
              /\ Returns(r)
              /\ pc[r] \in {"create_task", "update_task"}
              /\ req[r].data.assigned_to # None
              /\ tasks' # tasks
              => req[r].data.assigned_to \in DOMAIN users
       /\ resp'.op \in {"create_task", "update_task"} /\ resp'.code = 404 =>
              tasks' = tasks]_vars

\* ----------------------------------------- tasks and metrics, one at a time

TasksMaxTasks == 2

TasksTaskIds == {Uuid("t", n) : n \in 1 .. TasksMaxTasks}

TasksUpdates ==
    {OnlyStatus(status) : status \in TaskStatus}
    \cup {[OnlyStatus(status) EXCEPT !.title = "fix"] : status \in TaskStatus \cup {None}}

NextTasks ==
    \E r \in {"r1"} :
        \/ /\ MayCreate("tasks", "create_task", TasksMaxTasks)
           /\ create_task_project(r, TaskData("p1", None))
        \/ \E created_at \in Times : create_task_insert(r, created_at, 0)
        \/ \E id \in TasksTaskIds, data \in TasksUpdates : update_task_find(r, id, data)
        \/ \E now_done \in Times : update_task_write(r, 0, now_done)
        \/ \E id \in TasksTaskIds, status \in TaskStatus :
               update_task_status_find(r, id, status)
        \/ \E now_done \in Times : update_task_status_write(r, 0, now_done)
        \/ \E id \in TasksTaskIds : delete_task_one(r, id)
        \/ delete_task_comments(r)
        \/ \E id \in {"p1", "p2"} : get_project_metrics_project(r, id)
        \/ get_project_metrics_tasks(r)
        \/ get_overview_metrics_projects(r)
        \/ get_overview_metrics_tasks(r)
        \/ get_overview_metrics_users(r)
        \/ get_overview_metrics_done(r)

SpecTasks == InitProject /\ [][NextTasks]_vars

\* ------------------------------------------------ the status transition rule

\* The status the handler at its update_one is writing (None: no status).
WrittenStatus(r) ==
    IF pc[r] = "update_task" THEN req[r].data.status
    ELSE IF pc[r] = "update_task_status" THEN req[r].status
    ELSE None

\* completed_at is set exactly with status DONE.
Derived(doc, status) ==
    /\ doc.status = status
    /\ doc.completed_at # NoTime <=> status = "DONE"

\* C1: a status-changing write (a PUT /tasks/{id} that carries a status, a
\* PATCH /tasks/{id}/status) leaves the stored task and the returned task with
\* the status written, and with completed_at set if that status is DONE and
\* null if it is TODO, IN_PROGRESS or IN_REVIEW, whatever the task held
\* before; and neither handler answers 404 for a task that is in the store,
\* whatever status it holds and whatever status is asked for.
StatusWriteDerivesCompletedAt ==
    [][/\ \A r \in Procs :
              Returns(r) /\ WrittenStatus(r) # None =>
                  /\ resp'.code = 200
                  /\ resp'.id = req[r].id
                  /\ Derived(resp'.doc, WrittenStatus(r))
                  /\ req[r].id \in DOMAIN tasks' =>
                         Derived(tasks'[req[r].id], WrittenStatus(r))
       /\ resp'.op \in {"update_task", "update_task_status"} /\ resp'.code # 200 =>
              resp'.id \notin DOMAIN tasks]_vars

\* A DONE task has been moved to another status, and a task to DONE.
StatusWritten ==
    /\ resp.op \in {"update_task", "update_task_status"}
    /\ resp.code = 200
    /\ resp.id \in DOMAIN tasks
    /\ \/ resp.op = "update_task" /\ resp.data.status = "IN_REVIEW"
          /\ tasks[resp.id].completed_at = NoTime
          /\ \E i \in DOMAIN tasks : tasks[i].status = "DONE"
       \/ resp.op = "update_task_status" /\ resp.data = "DONE"
          /\ tasks[resp.id].completed_at # NoTime

\* C7: a PUT /tasks/{id} whose only field is status = s writes what a PATCH
\* /tasks/{id}/status with s writes to the same store at the same clock
\* readings, and returns the same task; the PATCH writes and returns what that
\* PUT does; and each answers 404 exactly for an id not in the store.
PutAndPatchAgree ==
    [][/\ \A r \in Procs :
              Returns(r) /\ pc[r] = "update_task" /\ req[r].data = OnlyStatus(req[r].data.status) =>
                  \E now, now_done \in Times :
                      LET patch == StatusUpdateData(req[r].data.status, now, now_done)
                      IN  /\ tasks' = UpdateOne(tasks, req[r].id, patch)
                          /\ resp'.code = 200
                          /\ resp'.doc = Merge(loc[r].doc, patch)
       /\ \A r \in Procs :
              Returns(r) /\ pc[r] = "update_task_status" =>
                  \E now, now_done \in Times :
                      LET put == TaskUpdateData(OnlyStatus(req[r].status), now, now_done)
                      IN  /\ tasks' = UpdateOne(tasks, req[r].id, put)
                          /\ resp'.code = 200
                          /\ resp'.doc = Merge(loc[r].doc, put)
       /\ \A r \in Procs :
              pc[r] = "idle" /\ pc'[r] \in {"update_task", "update_task_status"} =>
                  req'[r].id \in DOMAIN tasks
       /\ resp'.op \in {"update_task", "update_task_status"} /\ resp'.code = 404 =>
              resp'.id \notin DOMAIN tasks]_vars

\* A PUT of a status alone has cleared a completed_at, and a PATCH has set one.
PutAndPatchWritten ==
    /\ resp.code = 200
    /\ resp.id \in DOMAIN tasks
    /\ \E i \in DOMAIN tasks : tasks[i].status = "DONE" /\ tasks[i].completed_at = MaxTime
    /\ resp.op = "update_task"
    /\ resp.data = OnlyStatus("IN_PROGRESS")
    /\ tasks[resp.id] = resp.doc

\* ------------------------------------------------------- the metrics engine

\* The tasks of a project in the store.
TasksOf(project_id) == {i \in DOMAIN tasks : tasks[i].project_id = project_id}

DoneOf(ids) == {i \in ids : tasks[i].status = "DONE"}

\* The completion rate h (in hundredths) is completed / total * 100 rounded
\* to two decimals.
IsRate(h, completed, total) ==
    LET err == h * total - completed * 10000
    IN  2 * err <= total /\ 2 * err >= -total

\* C5, as amended: get_project_metrics of an existing project counts the
\* project's tasks and its DONE tasks, and returns completion_rate =
\* completed_tasks / total_tasks * 100 rounded to two decimals, between 0 and
\* 100, which is 0 exactly when completed_tasks is 0 (so with no task at all).
CompletionRateOfDoneTasks ==
    [][\A r \in Procs :
           Returns(r) /\ pc[r] = "get_project_metrics" =>
               LET total == Cardinality(TasksOf(req[r].id))
                   completed == Cardinality(DoneOf(TasksOf(req[r].id)))
                   h == resp'.doc.completion_rate
               IN  /\ resp'.code = 200
                   /\ resp'.doc.total_tasks = total
                   /\ resp'.doc.completed_tasks = completed
                   /\ total > 0 => IsRate(h, completed, total)
                   /\ 0 <= h /\ h <= 10000
                   /\ h = 0 <=> completed = 0]_vars

\* C5, as claimed: the rate is completed / total * 100, between 0 and 100,
\* and is 0 exactly when the project has no task.
CompletionRateZeroOnlyWithoutTasks ==
    [][\A r \in Procs :
           Returns(r) /\ pc[r] = "get_project_metrics" =>
               LET total == Cardinality(TasksOf(req[r].id))
                   completed == Cardinality(DoneOf(TasksOf(req[r].id)))
                   h == resp'.doc.completion_rate
               IN  /\ total > 0 => IsRate(h, completed, total)
                   /\ 0 <= h /\ h <= 10000
                   /\ h = 0 <=> total = 0]_vars

\* Metrics of a project with a DONE task and a task not DONE were returned.
RateReturned ==
    /\ resp.op = "get_project_metrics"
    /\ resp.code = 200
    /\ resp.doc.total_tasks = 2
    /\ resp.doc.completed_tasks = 1
    /\ resp.doc.completion_rate = 5000

\* average is the mean of the elapsed days of the tasks ids, to two decimals:
\* null with no task, else within half a hundredth of total / n.
IsMean(average, ids) ==
    LET n == Cardinality(ids)
        err == IF average = NoAverage THEN 0 ELSE average[1] * n - SumOver(tasks, ids) * 100
    IN  IF n = 0 THEN average = NoAverage
        ELSE average # NoAverage /\ 2 * err <= n /\ 2 * err >= -n

\* C8: average_completion_time_days is the mean of completed_at - created_at
\* over the scanned tasks that have both timestamps (all tasks of the project
\* in get_project_metrics, the DONE tasks in get_overview_metrics), whatever
\* the sign of the elapsed values, and null only when no scanned task has both.
AverageIsMeanOfElapsed ==
    [][\A r \in Procs :
           /\ Returns(r) /\ pc[r] = "get_project_metrics" =>
                  IsMean(resp'.doc.average_completion_time_days,
                         Timed(tasks, TasksOf(req[r].id)))
           /\ Returns(r) /\ pc[r] = "get_overview_metrics" =>
                  IsMean(resp'.doc.average_completion_time_days,
                         Timed(tasks, DoneOf(DOMAIN tasks)))]_vars

\* ------------------------------------------------------- partial updates

\* The store after POST /users, POST /projects and POST /tasks: user u1, its
\* project p1 and the task t1 of p1.
InitTask ==
    /\ users = ("u1" :> UserData)
    /\ projects = ("p1" :> NewProject(ProjectData("u1"), 0))
    /\ tasks = ("t1" :> NewTask(TaskData("p1", None), 0, 0))
    /\ comments = EmptyCollection
    /\ issued = [users |-> 1, projects |-> 1, tasks |-> 1, comments |-> 0]
    /\ pc = [r \in Procs |-> "idle"]
    /\ req = [r \in Procs |-> NoReq]
    /\ loc = [r \in Procs |-> NoDoc]
    /\ resp = NoResp

\* Every choice of fields a PUT may carry, each with one new value.
UpdateUsers ==
    [name : {None, "bob"}, email : {None, "bob@x.io"}, avatar_color : {None, "#ffffff"}]

UpdateProjects == [name : {None, "app"}, description : {None, "shop"}]

UpdateTasks ==
    [title : {None, "new"}, description : {None, "feature"}, assigned_to : {None, "u1"},
     status : {None, "IN_PROGRESS", "DONE"}, priority : {None, "HIGH"}]

\* The store after POST /users: user u1.
InitUser ==
    /\ users = ("u1" :> UserData)
    /\ projects = EmptyCollection
    /\ tasks = EmptyCollection
    /\ comments = EmptyCollection
    /\ issued = [users |-> 1, projects |-> 0, tasks |-> 0, comments |-> 0]
    /\ pc = [r \in Procs |-> "idle"]
    /\ req = [r \in Procs |-> NoReq]
    /\ loc = [r \in Procs |-> NoDoc]
    /\ resp = NoResp

\* The PUTs, one at a time, on a store of one user, of a user and a project,
\* or of a user, a project and a task.  A PUT addresses the kind of document
\* created last (or an id not in the store), so that each handler meets every
\* request body on every document it can have written, beside the documents
\* of the other kinds as they were created.
NextUpdate ==
    \E r \in {"r1"} :
        \/ /\ DOMAIN projects = {}
           /\ \E id \in {"u1", "u2"}, data \in UpdateUsers : update_user_find(r, id, data)
        \/ update_user_write(r)
        \/ /\ DOMAIN tasks = {}
           /\ \E id \in {"p1", "p2"}, data \in UpdateProjects :
                  update_project_find(r, id, data)
        \/ \E now \in Times : update_project_write(r, now)
        \/ \E id \in {"t1", "t2"}, data \in UpdateTasks : update_task_find(r, id, data)
        \/ \E now, now_done \in Times : update_task_write(r, now, now_done)

SpecUpdate == (InitUser \/ InitProject \/ InitTask) /\ [][NextUpdate]_vars

\* The collection a PUT handler updates.
Collection(op) ==
    IF op = "update_user" THEN users
    ELSE IF op = "update_project" THEN projects
    ELSE tasks

CollectionAfter(op) ==
    IF op = "update_user" THEN users'
    ELSE IF op = "update_project" THEN projects'
    ELSE tasks'

Updates == {"update_user", "update_project", "update_task"}

\* The fields of a document a PUT with this body may change: the fields the
\* body sets, the derived updated_at, and completed_at with a status.
MayChange(data) ==
    {f \in DOMAIN data : data[f] # None} \cup {"updated_at"}
    \cup (IF "status" \in DOMAIN data /\ data.status # None THEN {"completed_at"} ELSE {})

\* C6: update_user, update_project and update_task leave every field that is
\* absent or null in the request as stored (but updated_at, and completed_at
\* when a status is written), and every other document and collection as it
\* was; a request with no non-null field changes nothing in the store; a
\* request for an id not in the collection is answered 404 and changes
\* nothing in the store.
PartialUpdateFrame ==
    [][/\ \A r \in Procs :
              Returns(r) /\ pc[r] \in Updates =>
                  LET coll == Collection(pc[r])
                      after == CollectionAfter(pc[r])
                      id == req[r].id
                  IN  /\ DOMAIN after = DOMAIN coll
                      /\ \A i \in DOMAIN coll \ {id} : after[i] = coll[i]
                      /\ id \in DOMAIN coll =>
                             \A f \in DOMAIN coll[id] \ MayChange(req[r].data) :
                                 after[id][f] = coll[id][f]
                      /\ \A op \in Updates \ {pc[r]} : CollectionAfter(op) = Collection(op)
                      /\ comments' = comments
       /\ resp'.op \in Updates /\ resp'.code = 200 /\ DOMAIN NonNull(resp'.data) = {} =>
              store' = store
       /\ \A r \in Procs :
              pc[r] = "idle" /\ pc'[r] \in Updates => req'[r].id \in DOMAIN Collection(pc'[r])
       /\ resp'.op \in Updates /\ resp'.code = 200 => resp'.id \in DOMAIN Collection(resp'.op)
       /\ resp'.op \in Updates /\ resp'.code = 404 => store' = store]_vars

\* A PUT that carried a title alone has left the status DONE, the completed_at
\* and the priority of the task as they were.
PartialUpdateWritten ==
    /\ resp.op = "update_task"
    /\ resp.code = 200
    /\ resp.data = [NoTaskUpdate EXCEPT !.title = "new"]
    /\ "t1" \in DOMAIN tasks
    /\ tasks["t1"].title = "new"
    /\ tasks["t1"].status = "DONE"
    /\ tasks["t1"].completed_at = MaxTime
    /\ tasks["t1"].priority = "MEDIUM"

\* ---------------------------------------------------- the cascading deletes

\* The identifiers uuid4 has handed out to a collection.
Issued(kind, letter) == {Uuid(letter, n) : n \in 1 .. issued[kind]}

\* Requests that create and delete projects, tasks and comments, two at a
\* time, from a store with user u1.
NextCascade ==
    \E r \in Procs :
        \/ /\ MayCreate("projects", "create_project", MaxProjects)
           /\ create_project_owner(r, ProjectData("u1"))
        \/ create_project_insert(r, 0)
        \/ \E id \in ProjectIds : delete_project_one(r, id)
        \/ delete_project_tasks(r)
        \/ /\ MayCreate("tasks", "create_task", MaxTasks)
           /\ \E project_id \in ProjectIds : create_task_project(r, TaskData(project_id, None))
        \/ create_task_insert(r, 0, 0)
        \/ /\ MayCreate("comments", "create_comment", MaxComments)
           /\ \E task_id \in TaskIds : create_comment_task(r, CommentData(task_id, "u1"))
        \/ create_comment_user(r)
        \/ create_comment_insert(r)

SpecCascade == InitUser /\ [][NextCascade]_vars

\* A delete_project of project_id has returned 200: the project was in the
\* store, is no more, and no delete_project of it is at its delete_many.
\* (Only delete_project removes a project, and no id is handed out twice.)
ProjectDeleted(project_id) ==
    /\ project_id \in Issued("projects", "p")
    /\ project_id \notin DOMAIN projects
    /\ \A r \in Procs : ~(pc[r] = "delete_project" /\ req[r].id = project_id)

\* Handler r, a create_task that read its project before, inserts in this step.
InsertsTaskOf(r, project_id) ==
    pc[r] = "create_task" /\ Returns(r) /\ req[r].data.project_id = project_id

NextComments ==
    \E r \in Procs :
        \/ /\ MayCreate("tasks", "create_task", MaxTasks)
           /\ create_task_project(r, TaskData("p1", None))
        \/ create_task_insert(r, 0, 0)
        \/ \E id \in TaskIds : delete_task_one(r, id)
        \/ delete_task_comments(r)
        \/ /\ MayCreate("comments", "create_comment", MaxComments)
           /\ \E task_id \in TaskIds : create_comment_task(r, CommentData(task_id, "u1"))
        \/ create_comment_user(r)
        \/ create_comment_insert(r)
        \/ \E id \in CommentIds : delete_comment(r, id)

SpecComments == InitProject /\ [][NextComments]_vars

\* A delete_task of task_id has returned 200.  (In SpecComments only
\* delete_task removes a task.)
TaskDeleted(task_id) ==
    /\ task_id \in Issued("tasks", "t")
    /\ task_id \notin DOMAIN tasks
    /\ \A r \in Procs : ~(pc[r] = "delete_task" /\ req[r].id = task_id)

\* Handler r, a create_comment that read its task before, inserts in this step.
InsertsCommentOf(r, task_id) ==
    pc[r] = "create_comment" /\ Returns(r) /\ req[r].data.task_id = task_id

\* C4, as amended: when a successful delete_task(t) returns, no comment of t
\* is in the store (GET /comments?task_id=t is empty).  Afterwards a comment
\* of t enters the store only by the insert of a create_comment that was past
\* its task check when t was removed: a create_comment that reads the tasks
\* after t was removed is answered 404.
DeleteTaskRemovesComments ==
    [][\A task_id \in TaskIds :
           /\ \A r \in Procs :
                  pc[r] = "delete_task" /\ Returns(r) /\ req[r].id = task_id =>
                      get_comments(task_id)' = {}
           /\ \A r \in Procs :
                  pc[r] = "idle" /\ pc'[r] = "create_comment_user" =>
                      req'[r].data.task_id \in DOMAIN tasks
           /\ TaskDeleted(task_id) /\ get_comments(task_id) = {}
              /\ get_comments(task_id)' # {}
              => \E r \in Procs : InsertsCommentOf(r, task_id)]_vars

\* C4, as claimed: once a successful delete_task(t) has completed, no comment
\* of t is in the store, under every interleaving with create_comment.
NoCommentOfDeletedTask ==
    \A task_id \in TaskIds : TaskDeleted(task_id) => get_comments(task_id) = {}

\* A delete_task has removed a task and its comment, and another comment is
\* still in the store.
TaskWithCommentDeleted ==
    /\ resp.op = "delete_task"
    /\ resp.code = 200
    /\ TaskDeleted(resp.id)
    /\ get_comments(resp.id) = {}
    /\ issued.comments = 2
    /\ Cardinality(DOMAIN comments) = 1

\* ------------------------------------------------------ concurrent updates

RaceMaxTasks == 1

RaceTaskIds == {Uuid("t", n) : n \in 1 .. RaceMaxTasks}

RaceUpdates ==
    {[NoTaskUpdate EXCEPT !.title = "new"], OnlyStatus("DONE"),
     [NoTaskUpdate EXCEPT !.title = "new", !.status = "IN_PROGRESS"]}

\* Requests that create, update and delete the tasks of project p1, two at a
\* time, from a store with user u1 and project p1.
NextRace ==
    \E r \in Procs :
        \/ /\ MayCreate("tasks", "create_task", RaceMaxTasks)
           /\ create_task_project(r, TaskData("p1", None))
        \/ create_task_insert(r, 0, 0)
        \/ \E id \in RaceTaskIds, task_data \in RaceUpdates : update_task_find(r, id, task_data)
        \/ \E now_done \in Times : update_task_write(r, 0, now_done)
        \/ \E id \in RaceTaskIds, status \in {"TODO", "DONE"} :
               update_task_status_find(r, id, status)
        \/ \E now_done \in Times : update_task_status_write(r, 0, now_done)
        \/ \E id \in RaceTaskIds : delete_task_one(r, id)
        \/ delete_task_comments(r)
        \/ delete_project_one(r, "p1")
        \/ delete_project_tasks(r)

SpecRace == InitProject /\ [][NextRace]_vars

TaskWrites == {"update_task", "update_task_status"}

\* The request of handler r as a TaskUpdate.
TaskUpdateOf(r) ==
    IF pc[r] = "update_task" THEN req[r].data ELSE OnlyStatus(req[r].status)

\* C9, as amended: update_task and update_task_status read the task and then
\* write with no lock, transaction or version check, but what they write is
\* the request's own fields onto the task as stored at the write, whatever
\* the handler read before: every field the request does not set keeps the
\* value the store holds (not the value read), every field it sets takes the
\* request's value, and completed_at follows a written status.  The stored
\* task after two concurrent updates is thus the result of applying the two
\* requests one after the other in the order of their writes.
WriteKeepsConcurrentUpdate ==
    [][\A r \in Procs :
           Returns(r) /\ pc[r] \in TaskWrites =>
               LET id == req[r].id
                   data == TaskUpdateOf(r)
               IN  /\ DOMAIN tasks' = DOMAIN tasks
                   /\ \A i \in DOMAIN tasks \ {id} : tasks'[i] = tasks[i]
                   /\ id \in DOMAIN tasks =>
                          /\ \A f \in DOMAIN tasks[id] \ MayChange(data) :
                                 tasks'[id][f] = tasks[id][f]
                          /\ \A f \in DOMAIN NonNull(data) : tasks'[id][f] = data[f]
                          /\ data.status # None =>
                                 (tasks'[id].completed_at # NoTime <=> data.status = "DONE")]_vars

\* C9, as claimed: a lost update.  The handler that writes after another
\* request has changed the task it read stores the task it read with its own
\* request applied (the task of its response), and so without the effect of
\* the other request.
LostUpdateOnRace ==
    [][\A r \in Procs :
           /\ Returns(r)
           /\ pc[r] \in TaskWrites
           /\ req[r].id \in DOMAIN tasks
           /\ tasks[req[r].id] # loc[r].doc
           => tasks'[req[r].id] = resp'.doc]_vars

\* Two updates of t1 have raced: the one that wrote last read the task before
\* the other gave it the title "new", and the store holds the effect of both.
RacedUpdatesBothStored ==
    /\ resp.op = "update_task_status"
    /\ resp.code = 200
    /\ resp.id = "t1"
    /\ resp.doc.title = "fix"
    /\ resp.doc.status = "DONE"
    /\ "t1" \in DOMAIN tasks
    /\ tasks["t1"].title = "new"
    /\ tasks["t1"].status = "DONE"

\* C10: every stored task has a completed_at if and only if its status is
\* DONE, under any interleaving of create_task, update_task,
\* update_task_status and the deletes; so the tasks that enter the
\* completion-time average of a project are the DONE tasks of the project.
CompletedAtIffDone ==
    /\ \A i \in DOMAIN tasks : tasks[i].completed_at # NoTime <=> tasks[i].status = "DONE"
    /\ \A project_id \in ProjectIds :
           Timed(tasks, TasksOf(project_id)) = DoneOf(TasksOf(project_id))

\* A task that was DONE is stored reopened, without completed_at, by a write
\* that raced with an update_task whose handler had read the task as DONE.
DoneAndReopenedStored ==
    /\ resp.op = "update_task_status"
    /\ resp.code = 200
    /\ resp.id \in DOMAIN tasks
    /\ tasks[resp.id].status = "TODO"
    /\ tasks[resp.id].completed_at = NoTime
    /\ tasks[resp.id].title = "new"
    /\ \E r \in Procs : /\ pc[r] = "update_task"
                        /\ req[r].id = resp.id
                        /\ loc[r].doc.status = "DONE"
                        /\ loc[r].doc.completed_at = MaxTime

====
